---- MODULE Spec2Model ----
(***************************************************************************)
(* Model of sql.py: the SQLite example store (create_database), schema     *)
(* introspection (get_database_schema), SQL execution (fetch_data), the    *)
(* two oracle-backed synthesizers (Text2SQL.gen_sql, Data2Chart.gen_chart) *)
(* and the __main__ pipeline that chains them.                             *)
(*                                                                         *)
(* Text is a sequence of tokens.  A token is either one of the two         *)
(* characters the code's formats are sensitive to (the line break the      *)
(* schema text is joined with, the single quote the PRAGMA argument is     *)
(* wrapped in) or a chunk of characters that contains neither.             *)
(***************************************************************************)
EXTENDS Integers, Sequences, FiniteSets, TLC

\* ------------------------------------------------------------------ bounds
MaxNameLen == 2
MaxTables  == 1
MaxCalls   == 2

\* ------------------------------------------------------------------- text
NL    == "\n"
QUOTE == "'"

\* Identifiers are taken over a letter and the quote; identifiers with line
\* breaks in them are not among the stores considered.
Alphabet == {"t", QUOTE}

Names == UNION {[1..n -> Alphabet] : n \in 1..MaxNameLen}

Min(S) == CHOOSE x \in S : \A y \in S : x <= y

RECURSIVE Join(_, _)
\* sep.join(parts)
Join(parts, sep) ==
    IF parts = <<>> THEN <<>>
    ELSE IF Len(parts) = 1 THEN parts[1]
    ELSE parts[1] \o sep \o Join(Tail(parts), sep)

RECURSIVE Split(_, _)
\* text.split(sep): leftmost, non-overlapping occurrences of sep
Split(text, sep) ==
    LET hits == {i \in 1..(Len(text) - Len(sep) + 1) :
                    SubSeq(text, i, i + Len(sep) - 1) = sep}
    IN  IF hits = {} THEN <<text>>
        ELSE LET i == Min(hits)
             IN  <<SubSeq(text, 1, i - 1)>>
                 \o Split(SubSeq(text, i + Len(sep), Len(text)), sep)

\* ------------------------------------------------------------------ store
\* A table of sqlite_master: name, declared columns, committed rows.
Col(n, t) == [name |-> n, type |-> t]

Table(n, cs, rs) == [name |-> n, cols |-> cs, rows |-> rs]

\* Statements of create_database, as the store records them.  The first
\* AUTOINCREMENT table makes SQLite add its sqlite_sequence table, which
\* gets one row per AUTOINCREMENT table that has been inserted into.
SeedStore ==
    << Table(<<"employees">>,
             << Col(<<"id">>, <<"INTEGER">>), Col(<<"name">>, <<"TEXT">>),
                Col(<<"age">>, <<"INTEGER">>),
                Col(<<"department_id">>, <<"INTEGER">>) >>,
             << <<"1", "Alice", "30", "2">>, <<"2", "Bob", "45", "3">>,
                <<"3", "Charlie", "25", "2">>, <<"4", "Diana", "35", "1">>,
                <<"5", "Eve", "40", "4">>, <<"6", "Frank", "50", "3">> >>),
       Table(<<"sqlite_", "sequence">>,
             << Col(<<"name">>, <<>>), Col(<<"seq">>, <<>>) >>,
             << <<"departments", "4">>, <<"employees", "6">> >>),
       Table(<<"departments">>,
             << Col(<<"id">>, <<"INTEGER">>), Col(<<"name">>, <<"TEXT">>) >>,
             << <<"1", "Human Resources">>, <<"2", "Engineering">>,
                <<"3", "Sales">>, <<"4", "Marketing">> >>) >>

\* The tables of a store file the program finds on disk: under any of the
\* names, an empty one-column table or a two-column table with two rows.
FoundShapes ==
    { [cols |-> << Col(<<"id">>, <<"INTEGER">>) >>, rows |-> <<>>],
      [cols |-> << Col(<<"id">>, <<"INTEGER">>), Col(<<"name">>, <<>>) >>,
       rows |-> << <<"1", "x">>, <<"2", "y">> >>] }

FoundTables == {Table(n, sh.cols, sh.rows) : n \in Names, sh \in FoundShapes}

FoundStores ==
    {s \in UNION {[1..n -> FoundTables] : n \in 0..MaxTables} :
        \A i, j \in 1..Len(s) : i # j => s[i].name # s[j].name}

\* ---------------------------------------------------------------- sqlite3
RECURSIVE ScanLiteral(_, _, _)
\* SQLite reading the string literal that starts after an opening quote:
\* a doubled quote is one quote character, a lone quote closes the literal,
\* and the statement is accepted only if ");" is all that follows.
ScanLiteral(s, i, acc) ==
    IF i > Len(s) THEN [ok |-> FALSE, name |-> <<>>]
    ELSE IF s[i] = QUOTE
         THEN IF i < Len(s) /\ s[i + 1] = QUOTE
              THEN ScanLiteral(s, i + 2, Append(acc, QUOTE))
              ELSE [ok |-> SubSeq(s, i + 1, Len(s)) = <<");">>, name |-> acc]
         ELSE ScanLiteral(s, i + 1, Append(acc, s[i]))

\* f"PRAGMA table_info('{table_name}');" : the name is pasted between quotes
PragmaArg(table_name) == ScanLiteral(table_name \o <<QUOTE, ");">>, 1, <<>>)

\* PRAGMA table_info(n): the columns of table n, no rows for an unknown n
TableInfo(st, n) ==
    LET hits == {i \in 1..Len(st) : st[i].name = n}
    IN  IF hits = {} THEN <<>> ELSE st[Min(hits)].cols

\* The statements the oracle is taken to answer with.  <t1> stands for the
\* first table of the store the schema text was rendered from.
BeyondError == "BeyondError"
SelAll      == "SELECT * FROM <t1>;"
SelNone     == "SELECT * FROM <t1> WHERE 0;"
SelConst    == "SELECT 1;"
Malformed   == "SELEC * FROM;"
Del         == "DELETE FROM <t1>;"

Statements == {SelAll, SelNone, SelConst, Malformed, Del}

SqlTexts == Statements \cup {BeyondError}

\* cursor.execute(sql) with cursor.description and cursor.fetchall():
\* raised: the statement failed; described: it has result columns.
Execute(q, st) ==
    LET fail(e) == [raised |-> TRUE, described |-> FALSE, columns |-> <<>>,
                    data |-> <<>>, error |-> e]
    IN  CASE q = SelConst ->
               [raised |-> FALSE, described |-> TRUE,
                columns |-> << <<"1">> >>, data |-> << <<"1">> >>, error |-> ""]
          [] q \in {SelAll, SelNone, Del} /\ st = <<>> -> fail("no such table")
          [] q = SelAll ->
               [raised |-> FALSE, described |-> TRUE,
                columns |-> [i \in 1..Len(st[1].cols) |-> st[1].cols[i].name],
                data |-> st[1].rows, error |-> ""]
          [] q = SelNone ->
               [raised |-> FALSE, described |-> TRUE,
                columns |-> [i \in 1..Len(st[1].cols) |-> st[1].cols[i].name],
                data |-> <<>>, error |-> ""]
          [] q = Del ->
               [raised |-> FALSE, described |-> FALSE, columns |-> <<>>, data |-> <<>>,
                error |-> ""]
          [] OTHER -> fail("syntax error")

\* ------------------------------------------------------------ the program
\* Every function below maps the store file (present, content) and the
\* outcome of the calls it makes to: what it returns, whether it raised,
\* the file afterwards, the connections it opened and left open, and the
\* lines it printed.

\* sqlite3.connect(db_file) creates a missing file as an empty database.
Connected(present, st) == IF present THEN st ELSE <<>>

\* create_database without the os.path.exists test
create_database_NoCheck(present, st, connOk) ==
    IF ~connOk
    THEN [raised |-> TRUE, present |-> present, store |-> st, leaked |-> 0,
          printed |-> <<>>]
    ELSE [raised |-> FALSE, present |-> TRUE, store |-> SeedStore, leaked |-> 0,
          printed |-> <<"created">>]

create_database(present, st, connOk) ==
    IF present
    THEN [raised |-> FALSE, present |-> TRUE, store |-> st, leaked |-> 0,
          printed |-> <<"already exists">>]
    ELSE IF ~connOk
    THEN [raised |-> TRUE, present |-> FALSE, store |-> st, leaked |-> 0,
          printed |-> <<>>]
    ELSE [raised |-> FALSE, present |-> TRUE, store |-> SeedStore, leaked |-> 0,
          printed |-> <<"created">>]

UnableToOpen == "unable to open database file"
Unrecognized == "unrecognized token"
NotIterable  == "'NoneType' object is not iterable"

ColumnLine(col) == <<"col:">> \o col.name \o <<", type:">> \o col.type

Block(table_name, columns) ==
    <<"table: ">> \o table_name \o <<NL, "columns:", NL>>
    \o Join([i \in 1..Len(columns) |-> ColumnLine(columns[i])], <<NL>>)

get_database_schema(present, st, connOk) ==
    LET db     == Connected(present, st)
        tables == [i \in 1..Len(db) |-> db[i].name]
        broken == {i \in 1..Len(tables) : ~PragmaArg(tables[i]).ok}
        schema_info ==
            [i \in 1..Len(tables) |->
                Block(tables[i], TableInfo(db, PragmaArg(tables[i]).name))]
    IN  IF ~connOk
        THEN [raised |-> TRUE, error |-> UnableToOpen, ret |-> <<>>,
              present |-> present, store |-> st, leaked |-> 0]
        ELSE IF broken # {}
        THEN [raised |-> TRUE, error |-> Unrecognized, ret |-> <<>>,
              present |-> TRUE, store |-> db, leaked |-> 1]
        ELSE [raised |-> FALSE, error |-> "", ret |-> Join(schema_info, <<NL, NL>>),
              present |-> TRUE, store |-> db, leaked |-> 0]

\* print(f"Error executing SQL: {e}")
ErrorLine(e) == "Error executing SQL: " \o e

\* fetch_data whose except branch returns what it has, [columns] + data
fetch_data_HeaderOnError(q, present, st, connOk, collected) ==
    LET db == IF present THEN st ELSE <<>>
        r  == Execute(q, db)
    IN  IF ~connOk
        THEN [ret |-> <<>>, present |-> present, store |-> st, leaked |-> 0,
              printed |-> <<ErrorLine(UnableToOpen)>>]
        ELSE IF r.raised \/ ~r.described
        THEN [ret |-> <<r.columns>> \o r.data, present |-> TRUE, store |-> db,
              leaked |-> IF collected THEN 0 ELSE 1,
              printed |-> <<ErrorLine(r.error)>>]
        ELSE [ret |-> <<r.columns>> \o r.data, present |-> TRUE, store |-> db,
              leaked |-> 0, printed |-> <<>>]

\* collected: whether the runtime has already reclaimed (and so closed) a
\* connection the function dropped without closing it.
fetch_data(q, present, st, connOk, collected) ==
    LET db == Connected(present, st)
        r  == Execute(q, db)
        dropped == IF collected THEN 0 ELSE 1
    IN  IF ~connOk
        THEN [ret |-> <<>>, present |-> present, store |-> st, leaked |-> 0,
              printed |-> <<ErrorLine(UnableToOpen)>>]
        ELSE IF r.raised
        THEN [ret |-> <<>>, present |-> TRUE, store |-> db, leaked |-> dropped,
              printed |-> <<ErrorLine(r.error)>>]
        ELSE IF ~r.described
        THEN [ret |-> <<>>, present |-> TRUE, store |-> db, leaked |-> dropped,
              printed |-> <<ErrorLine(NotIterable)>>]
        ELSE [ret |-> <<r.columns>> \o r.data, present |-> TRUE, store |-> db,
              leaked |-> 0, printed |-> <<>>]

\* Text2SQL.gen_sql: one oracle call; the sentinel is reported, not raised.
gen_sql(req, answer) ==
    [ret |-> answer,
     printed |-> IF answer = BeyondError
                 THEN <<"Error: Requirement exceeds provided schema">>
                 ELSE <<>>]

\* Data2Chart.gen_chart: one oracle call, its answer passed through.
gen_chart(req, res, answer) == [ret |-> answer]

Requirements == {"Find the name and age of the oldest employee.",
                 "Who is my best friend?"}

ChartTexts == {"ChartError", "{option}"}

\* what client.chat.completions.create raises when the call fails
OracleFailed == "oracle call failed"

\* ------------------------------------------------------------------ state
VARIABLES
    found,            \* whether the store file was there when the process started
    present,          \* os.path.exists(DB_FILE)
    store,            \* committed content of the store file
    open,             \* connections opened and not closed
    pc,               \* position of __main__, "lib" when used as a module
    out,              \* standard output, one entry per printed item
    requirement, database_schema, sql, result, chart_config,
    exitStatus,       \* exit status once pc is terminal
    lastOp,           \* the function that returned or raised last
    raised,           \* whether it raised
    failure,          \* the message of what it raised, "" if that is not known
    calls             \* number of calls made, per function

vars == <<found, present, store, open, pc, out, requirement, database_schema, sql,
          result, chart_config, exitStatus, lastOp, raised, failure, calls>>

Ops == {"create_database", "get_database_schema", "input", "gen_sql",
        "fetch_data", "gen_chart"}

Terminal == {"done", "exit", "crashed"}

Called(op) == [calls EXCEPT ![op] = @ + 1]

EnvInit ==
    /\ present \in BOOLEAN
    /\ found = present
    /\ store \in FoundStores
    /\ ~present => store = <<>>
    /\ open = 0
    /\ out = <<>>
    /\ requirement = ""
    /\ database_schema = <<>>
    /\ sql = ""
    /\ result = <<>>
    /\ chart_config = ""
    /\ exitStatus = 0
    /\ lastOp = "none"
    /\ raised = FALSE
    /\ failure = ""
    /\ calls = [op \in Ops |-> 0]

Init == EnvInit /\ pc = "A"

\* An uncaught exception ends the process with a traceback and status 1.
Crash(op, msg) ==
    /\ pc' = "crashed"
    /\ failure' = msg
    /\ exitStatus' = 1
    /\ raised' = TRUE
    /\ lastOp' = op
    /\ calls' = Called(op)

Returned(op) ==
    /\ raised' = FALSE
    /\ failure' = ""
    /\ lastOp' = op
    /\ calls' = Called(op)

\* Step A: create_database(DB_FILE)
MainCreate ==
    /\ pc = "A"
    /\ \E connOk \in BOOLEAN :
         LET r == create_database(present, store, connOk)
         IN  /\ present' = r.present
             /\ store' = r.store
             /\ open' = open + r.leaked
             /\ out' = out \o r.printed
             /\ IF r.raised
                THEN Crash("create_database", UnableToOpen)
                ELSE /\ Returned("create_database")
                     /\ pc' = "B"
                     /\ UNCHANGED exitStatus
    /\ UNCHANGED <<found, requirement, database_schema, sql, result, chart_config>>

\* Step B without print(database_schema)
MainSchema_NoPrint ==
    /\ pc = "B"
    /\ \E connOk \in BOOLEAN :
         LET r == get_database_schema(present, store, connOk)
         IN  /\ present' = r.present
             /\ store' = r.store
             /\ open' = open + r.leaked
             /\ UNCHANGED out
             /\ IF r.raised
                THEN /\ Crash("get_database_schema", r.error)
                     /\ UNCHANGED database_schema
                ELSE /\ Returned("get_database_schema")
                     /\ database_schema' = r.ret
                     /\ pc' = "C"
                     /\ UNCHANGED exitStatus
    /\ UNCHANGED <<found, requirement, sql, result, chart_config>>

\* Step B: get_database_schema() and the printing of its text
MainSchema ==
    /\ pc = "B"
    /\ \E connOk \in BOOLEAN :
         LET r == get_database_schema(present, store, connOk)
         IN  /\ present' = r.present
             /\ store' = r.store
             /\ open' = open + r.leaked
             /\ IF r.raised
                THEN /\ Crash("get_database_schema", r.error)
                     /\ UNCHANGED <<database_schema, out>>
                ELSE /\ Returned("get_database_schema")
                     /\ database_schema' = r.ret
                     /\ out' = out \o <<"schema">>
                     /\ pc' = "C"
                     /\ UNCHANGED exitStatus
    /\ UNCHANGED <<found, requirement, sql, result, chart_config>>

\* Step C: input("Enter your requirement: ")
MainInput ==
    /\ pc = "C"
    /\ \E req \in Requirements :
         /\ requirement' = req
         /\ out' = out \o <<"prompt">>
         /\ Returned("input")
         /\ pc' = "D"
    /\ UNCHANGED <<found, present, store, open, database_schema, sql, result,
                   chart_config, exitStatus>>

\* Step D without the exit(1) on the sentinel
MainGenSql_NoAbort ==
    /\ pc = "D"
    /\ \/ \E answer \in SqlTexts :
            LET r == gen_sql(requirement, answer)
            IN  /\ sql' = r.ret
                /\ out' = out \o r.printed \o <<"sql">>
                /\ Returned("gen_sql")
                /\ pc' = "E"
                /\ UNCHANGED exitStatus
       \/ /\ Crash("gen_sql", OracleFailed)
          /\ UNCHANGED <<sql, out>>
    /\ UNCHANGED <<found, present, store, open, requirement, database_schema, result,
                   chart_config>>

\* Step D: Text2SQL(database_schema).gen_sql(requirement), print, sentinel test
MainGenSql ==
    /\ pc = "D"
    /\ \/ \E answer \in SqlTexts :
            LET r == gen_sql(requirement, answer)
            IN  /\ sql' = r.ret
                /\ out' = out \o r.printed \o <<"sql">>
                /\ Returned("gen_sql")
                /\ IF r.ret = "BeyondError"
                   THEN pc' = "exit" /\ exitStatus' = 1
                   ELSE pc' = "E" /\ UNCHANGED exitStatus
       \/ /\ Crash("gen_sql", OracleFailed)
          /\ UNCHANGED <<sql, out>>
    /\ UNCHANGED <<found, present, store, open, requirement, database_schema, result,
                   chart_config>>

InsufficientLine == "ChartError: No or insufficient data returned from SQL."

\* Step E without the test of the result
MainFetch_NoGate ==
    /\ pc = "E"
    /\ \E connOk, collected \in BOOLEAN :
         LET r == fetch_data(sql, present, store, connOk, collected)
         IN  /\ present' = r.present
             /\ store' = r.store
             /\ open' = open + r.leaked
             /\ result' = r.ret
             /\ Returned("fetch_data")
             /\ out' = out \o r.printed \o <<"data">>
             /\ pc' = "F"
             /\ UNCHANGED exitStatus
    /\ UNCHANGED <<found, requirement, database_schema, sql, chart_config>>

\* Step E: fetch_data(sql), the insufficient-data test, print
MainFetch ==
    /\ pc = "E"
    /\ \E connOk, collected \in BOOLEAN :
         LET r == fetch_data(sql, present, store, connOk, collected)
         IN  /\ present' = r.present
             /\ store' = r.store
             /\ open' = open + r.leaked
             /\ result' = r.ret
             /\ Returned("fetch_data")
             /\ IF r.ret = <<>> \/ Len(r.ret) < 2
                THEN /\ out' = out \o r.printed \o <<InsufficientLine>>
                     /\ pc' = "exit"
                     /\ exitStatus' = 1
                ELSE /\ out' = out \o r.printed \o <<"data">>
                     /\ pc' = "F"
                     /\ UNCHANGED exitStatus
    /\ UNCHANGED <<found, requirement, database_schema, sql, chart_config>>

\* Step F: Data2Chart().gen_chart(requirement, result), print, end of script
MainGenChart ==
    /\ pc = "F"
    /\ \/ \E answer \in ChartTexts :
            /\ chart_config' = gen_chart(requirement, result, answer).ret
            /\ out' = out \o <<"chart">>
            /\ Returned("gen_chart")
            /\ pc' = "done"
            /\ exitStatus' = 0
       \/ /\ Crash("gen_chart", OracleFailed)
          /\ UNCHANGED <<chart_config, out>>
    /\ UNCHANGED <<found, present, store, open, requirement, database_schema, sql,
                   result>>

Next ==
    \/ MainCreate
    \/ MainSchema
    \/ MainInput
    \/ MainGenSql
    \/ MainFetch
    \/ MainGenChart

Spec == Init /\ [][Next]_vars

\* The script runs its statements one after the other, each to completion.
FairSpec == Spec /\ WF_vars(Next)

\* ------------------------------------------------- the functions, as a library
\* sql.py imported as a module: the caller invokes the three store functions
\* in any order on the same file and survives what they raise.
LibInit == EnvInit /\ pc = "lib"

Budget == calls["create_database"] + calls["get_database_schema"]
          + calls["fetch_data"] < MaxCalls

CallCreate ==
    /\ pc = "lib" /\ Budget
    /\ \E connOk \in BOOLEAN :
         LET r == create_database(present, store, connOk)
         IN  /\ present' = r.present
             /\ store' = r.store
             /\ open' = open + r.leaked
             /\ out' = out \o r.printed
             /\ raised' = r.raised
             /\ failure' = IF r.raised THEN UnableToOpen ELSE ""
    /\ lastOp' = "create_database"
    /\ calls' = Called("create_database")
    /\ UNCHANGED <<found, pc, requirement, database_schema, sql, result, chart_config,
                   exitStatus>>

CallSchema ==
    /\ pc = "lib" /\ Budget
    /\ \E connOk \in BOOLEAN :
         LET r == get_database_schema(present, store, connOk)
         IN  /\ present' = r.present
             /\ store' = r.store
             /\ open' = open + r.leaked
             /\ database_schema' = r.ret
             /\ raised' = r.raised
             /\ failure' = r.error
    /\ lastOp' = "get_database_schema"
    /\ calls' = Called("get_database_schema")
    /\ UNCHANGED <<found, pc, out, requirement, sql, result, chart_config, exitStatus>>

CallFetch ==
    /\ pc = "lib" /\ Budget
    /\ \E q \in Statements, connOk, collected \in BOOLEAN :
         LET r == fetch_data(q, present, store, connOk, collected)
         IN  /\ sql' = q
             /\ present' = r.present
             /\ store' = r.store
             /\ open' = open + r.leaked
             /\ result' = r.ret
             /\ out' = out \o r.printed
    /\ raised' = FALSE
    /\ failure' = ""
    /\ lastOp' = "fetch_data"
    /\ calls' = Called("fetch_data")
    /\ UNCHANGED <<found, pc, requirement, database_schema, chart_config, exitStatus>>

LibNext == CallCreate \/ CallSchema \/ CallFetch

LibSpec == LibInit /\ [][LibNext]_vars

\* ============================================================== properties
Last(q) == q[Len(q)]

\* C1: in a pipeline run, once gen_sql has returned the sentinel
\* "BeyondError" the run has exited with a non-zero status and neither
\* fetch_data nor gen_chart has been or will be called.
C1_BeyondAborts ==
    sql = "BeyondError" =>
        /\ pc = "exit"
        /\ exitStatus # 0
        /\ calls["fetch_data"] = 0
        /\ calls["gen_chart"] = 0

C1_Witness ==
    /\ pc = "exit"
    /\ sql = "BeyondError"
    /\ lastOp = "gen_sql"

\* C2: when the statement handed to fetch_data fails to execute, fetch_data
\* returns the empty list (nothing is raised), and the pipeline prints the
\* insufficient-data report and exits non-zero with gen_chart uncalled.
C2_ExecErrorIsEmpty ==
    (lastOp = "fetch_data" /\ Execute(sql, store).raised) =>
        /\ result = <<>>
        /\ ~raised
        /\ pc = "exit"
        /\ exitStatus # 0
        /\ Last(out) = InsufficientLine
        /\ calls["gen_chart"] = 0

C2_Witness ==
    /\ lastOp = "fetch_data"
    /\ sql = Malformed
    /\ pc = "exit"
    /\ ErrorLine("syntax error") \in {out[i] : i \in 1..Len(out)}

RowCount(st, n) ==
    LET hits == {i \in 1..Len(st) : st[i].name = n}
    IN  IF hits = {} THEN 0 ELSE Len(st[Min(hits)].rows)

\* C3: a create_database call on a file that already exists returns without
\* touching it: the file stays, its content (hence every row count) is the
\* same after the call as before, and no connection is opened.
C3_CreateIsNoOpOnExisting ==
    [][(calls'["create_database"] = calls["create_database"] + 1 /\ present) =>
          /\ present'
          /\ store' = store
          /\ RowCount(store', <<"departments">>) = RowCount(store, <<"departments">>)
          /\ RowCount(store', <<"employees">>) = RowCount(store, <<"employees">>)
          /\ ~raised'
          /\ open' = open]_vars

C3_Witness ==
    /\ ~found
    /\ calls["create_database"] = 2
    /\ ~raised
    /\ RowCount(store, <<"departments">>) = 4
    /\ RowCount(store, <<"employees">>) = 6

Printed == {out[i] : i \in 1..Len(out)}

Blocks(text) == Split(text, <<NL, NL>>)

Lines(block) == Split(block, <<NL>>)

\* The lines the schema format prescribes for one table
ExpectedLines(t) ==
    << <<"table: ">> \o t.name, <<"columns:">> >>
    \o [i \in 1..Len(t.cols) |->
          <<"col:">> \o t.cols[i].name \o <<", type:">> \o t.cols[i].type]

\* C4: for a store that can be opened, with at least one table and at least
\* one column per table, get_database_schema returns a text that splits on
\* blank lines into one block per table, each block's lines being the table line,
\* the "columns:" line and one "col:<name>, type:<type>" line per column of
\* that table, in declaration order.
C4_OneBlockPerTable ==
    (/\ lastOp = "get_database_schema" /\ failure # UnableToOpen
     /\ Len(store) >= 1
     /\ \A k \in 1..Len(store) : Len(store[k].cols) >= 1) =>
        /\ ~raised
        /\ Len(Blocks(database_schema)) = Len(store)
        /\ \A k \in 1..Len(store) :
             Lines(Blocks(database_schema)[k]) = ExpectedLines(store[k])

\* C9: on a store freshly created by create_database the rendered schema
\* has exactly two blocks, employees and departments, and none for a table
\* of the store's own bookkeeping.
C9_UserTablesOnly ==
    (/\ lastOp = "get_database_schema" /\ ~raised
     /\ ~found /\ "created" \in Printed /\ store = SeedStore) =>
        /\ Len(Blocks(database_schema)) = 2
        /\ {Lines(Blocks(database_schema)[k])[1] :
                k \in 1..Len(Blocks(database_schema))}
             = { <<"table: ", "employees">>, <<"table: ", "departments">> }

\* C10: starting without the file, after any mix of create_database and
\* get_database_schema calls, once a create_database call has returned the
\* store holds employees with 6 rows and departments with 4.
C10_SeededAfterCreate ==
    (/\ ~found
     /\ calls["fetch_data"] = 0
     /\ Printed \cap {"created", "already exists"} # {}) =>
        /\ present
        /\ RowCount(store, <<"employees">>) = 6
        /\ RowCount(store, <<"departments">>) = 4

StoreOps == {"create_database", "get_database_schema", "fetch_data"}

\* C8: a call of create_database, get_database_schema or fetch_data that
\* returns leaves no connection open that it opened.
C8_ClosedOnReturn ==
    [][(calls' # calls /\ lastOp' \in StoreOps /\ ~raised') => open' = open]_vars

\* C7: when the statement executed without error, fetch_data returns the
\* row of column names followed by the fetched rows in order; gen_chart is
\* called only on a result with a data row; a result shorter than two rows
\* is reported as insufficient and ends the run non-zero.
C7_HeaderThenRows ==
    /\ (/\ lastOp = "fetch_data"
        /\ ErrorLine(UnableToOpen) \notin Printed
        /\ ~Execute(sql, store).raised) =>
           result = <<Execute(sql, store).columns>> \o Execute(sql, store).data
    /\ calls["gen_chart"] > 0 => Len(result) >= 2
    /\ (lastOp = "fetch_data" /\ Len(result) < 2) =>
           /\ pc = "exit"
           /\ exitStatus # 0
           /\ Last(out) = InsufficientLine
           /\ calls["gen_chart"] = 0

StageOrder ==
    /\ \A op \in Ops : calls[op] <= 1
    /\ calls["gen_sql"] > 0 =>
          calls["get_database_schema"] = 1 /\ "schema" \in Printed
    /\ calls["fetch_data"] > 0 =>
          calls["gen_sql"] = 1 /\ "sql" \in Printed /\ sql # "BeyondError"
    /\ calls["gen_chart"] > 0 =>
          calls["fetch_data"] = 1 /\ Len(result) >= 2
    /\ raised => pc = "crashed" /\ exitStatus # 0
    /\ (calls["fetch_data"] = 1 /\ Len(result) < 2) => pc = "exit"

\* C5: the stages run in the order introspection, SQL synthesis, execution,
\* chart synthesis, each at most once and only after its predecessor
\* completed; a sentinel, an insufficient result or a raised failure ends
\* the run, after which nothing more happens; and every run ends.
C5_LinearPipeline ==
    /\ []StageOrder
    /\ [][pc \notin Terminal]_vars
    /\ <>(pc \in Terminal)

C5_Witness ==
    /\ pc = "done"
    /\ \A op \in Ops : calls[op] = 1

Pos(tag) ==
    IF tag \in Printed THEN Min({i \in 1..Len(out) : out[i] = tag}) ELSE 0

Count(tag) == Cardinality({i \in 1..Len(out) : out[i] = tag})

\* C6 as stated: the requirement is prompted for once, and the schema, the
\* SQL, the result and the chart text are printed only after it, in order.
C6_PromptFirst ==
    /\ Count("prompt") <= 1
    /\ \A tag \in {"schema", "sql", "data", "chart"} :
          tag \in Printed => (Pos("prompt") > 0 /\ Pos("prompt") < Pos(tag))

\* C6 as amended: the schema is printed before the prompt; the prompt is
\* issued at most once, and exactly once in a run that reaches SQL
\* synthesis; the SQL, the result and the chart text are printed only after
\* the prompt, once each, in this order.
C6_SchemaThenPrompt ==
    /\ \A tag \in {"schema", "prompt", "sql", "data", "chart"} : Count(tag) <= 1
    /\ pc \in {"D", "E", "F", "done", "exit"} => Count("prompt") = 1
    /\ calls["gen_sql"] > 0 => Count("prompt") = 1
    /\ "prompt" \in Printed => (Pos("schema") > 0 /\ Pos("schema") < Pos("prompt"))
    /\ "sql" \in Printed => (Pos("prompt") > 0 /\ Pos("prompt") < Pos("sql"))
    /\ "data" \in Printed => (Pos("sql") > 0 /\ Pos("sql") < Pos("data"))
    /\ "chart" \in Printed => (Pos("data") > 0 /\ Pos("data") < Pos("chart"))

C6_Witness ==
    /\ pc = "done"
    /\ {"schema", "prompt", "sql", "data", "chart"} \subseteq Printed

====
